---- MODULE Spec2Model ----
(***************************************************************************)
(* Model of analysis.py: the mesh-block median price growth pipeline.      *)
(*                                                                         *)
(*   load_data -> process_transactions -> aggregate_growth -> to_csv       *)
(*             -> create_visualizations                                    *)
(*                                                                         *)
(* Tables are sequences of records.  Floating point amounts are kept in    *)
(* fixed point: a price is an integer number of 1/Scale currency units, a  *)
(* median an integer number of 1/(2*Scale) units (the mean of two middle   *)
(* prices), and a growth percentage an exact fraction until it is rounded  *)
(* to hundredths of a percent.                                             *)
(***************************************************************************)
EXTENDS Integers, Sequences, FiniteSets, TLC

VARIABLES pc, files_ok, gnaf_file, trans_file, gnaf_df, trans_df,
          gnaf_before, trans_before, merged_data, processed_data, final_metrics,
          csv_written, csv_rows, top_10, top_3, stdout, exit_code

vars == <<pc, files_ok, gnaf_file, trans_file, gnaf_df, trans_df,
          gnaf_before, trans_before, merged_data, processed_data, final_metrics,
          csv_written, csv_rows, top_10, top_3, stdout, exit_code>>

(***************************************************************************)
(* Program constants.                                                      *)
(***************************************************************************)
LAST_N_YEARS_FOR_GROWTH == 5
MINIMUM_SALES_COUNT == 3
MIN_PRICE == 10000
TOP_N == 10
TOP_HISTORY == 3

\* Fixed-point resolution of a float price: Scale steps per currency unit.
Scale == 2
MedianScale == 2 * Scale

(***************************************************************************)
(* Bounds of the explored inputs.                                          *)
(***************************************************************************)
MaxGnaf == 2
MaxJoinTrans == 2
MaxRunTrans == 1
MaxCleanTrans == 2
MaxGroup == 4
NumRankMB == 11

(***************************************************************************)
(* Values.                                                                 *)
(***************************************************************************)
\* A float cell: a number or NaN (a growth cell may also be "inf").
Num(x) == [k |-> "num", v |-> x]
NaN == [k |-> "nan", v |-> 0]

\* A property identifier as stored in a column: raw bytes, a Python str or
\* an int; text may carry surrounding whitespace.
Id(kind, n, padded) == [k |-> kind, v |-> n, ws |-> padded]

\* x.decode('utf-8') if isinstance(x, bytes) else str(x), then .str.strip()
DecodeId(x) == Id("str", x.v, FALSE)

\* astype(str) of one cell: str(x).  str() of a bytes object is its repr
\* (b'...'), a text that no decoded identifier equals.
AsTypeStr(x) ==
    CASE x.k = "int"   -> Id("str", x.v, x.ws)
      [] x.k = "bytes" -> Id("bytesrepr", x.v, x.ws)
      [] OTHER         -> x

\* pd.to_numeric(errors='coerce') of one price cell.
ToNumeric(p) ==
    CASE p.k = "num"    -> Num(p.v)
      [] p.k = "numstr" -> Num(p.v)
      [] OTHER          -> NaN

\* A timestamp, or NaT.
Date(y, m) == [ok |-> TRUE, y |-> y, m |-> m]
NaT == [ok |-> FALSE, y |-> 0, m |-> 0]

\* pd.to_datetime(errors='coerce') of one date cell.
ToDatetime(d) ==
    CASE d.k = "date"    -> Date(d.y, d.m)
      [] d.k = "datestr" -> Date(d.y, d.m)
      [] OTHER           -> NaT

(***************************************************************************)
(* Sequence helpers.                                                       *)
(***************************************************************************)
\* A stable sort: element i goes after every element that is less, and
\* after every earlier element that is not greater.
StableSort(s, Less(_, _)) ==
    LET n == Len(s)
        Rank(i) == Cardinality({j \in 1..n :
                       Less(s[j], s[i]) \/ (~Less(s[i], s[j]) /\ j < i)})
    IN  [k \in 1..n |-> s[CHOOSE i \in 1..n : Rank(i) = k - 1]]

Map(s, F(_)) == [i \in 1..Len(s) |-> F(s[i])]

Filter(s, P(_)) == SelectSeq(s, P)

Head_n(s, n) == SubSeq(s, 1, IF Len(s) < n THEN Len(s) ELSE n)

RECURSIVE Concat(_)
Concat(ss) == IF ss = <<>> THEN <<>> ELSE Head(ss) \o Concat(Tail(ss))

\* round(): to the nearest integer, ties to the even one (num / den, den > 0).
RoundHalfEven(num, den) ==
    LET q == num \div den
        r == num - q * den
    IN  IF 2 * r < den THEN q
        ELSE IF 2 * r > den THEN q + 1
        ELSE IF q % 2 = 0 THEN q ELSE q + 1

(***************************************************************************)
(* load_data                                                               *)
(***************************************************************************)
\* decode_binary_column(df, 'gnaf_pid')
decode_binary_column(rows) ==
    Map(rows, LAMBDA r : [r EXCEPT !.gnaf_pid = DecodeId(r.gnaf_pid)])

EmptyGnaf == [has_mb |-> TRUE, rows |-> <<>>]

Say(msg, n) == [msg |-> msg, n |-> n]

LoadData ==
    /\ pc = "load"
    /\ IF files_ok
       THEN /\ gnaf_df' = [gnaf_file EXCEPT !.rows = decode_binary_column(gnaf_file.rows)]
            /\ trans_df' = decode_binary_column(trans_file)
            /\ stdout' = stdout \o <<Say("loaded_gnaf", Len(gnaf_file.rows)),
                                     Say("loaded_trans", Len(trans_file))>>
            /\ pc' = "process"
            /\ UNCHANGED exit_code
       ELSE /\ stdout' = Append(stdout, Say("file_not_found", 0))
            /\ pc' = "exit"
            /\ exit_code' = 1
            /\ UNCHANGED <<gnaf_df, trans_df>>
    /\ UNCHANGED <<files_ok, gnaf_file, trans_file, gnaf_before, trans_before,
                   merged_data, processed_data, final_metrics, csv_written,
                   csv_rows, top_10, top_3>>

(***************************************************************************)
(* process_transactions                                                    *)
(***************************************************************************)
\* df[col] = df[col].astype(str): an assignment into the caller's frame.
AsTypeStrColumn(rows) ==
    Map(rows, LAMBDA r : [r EXCEPT !.gnaf_pid = AsTypeStr(r.gnaf_pid)])

\* Faulty variant: the property table is not deduplicated.
DropDuplicates_None(rows) == rows

\* gnaf_df.drop_duplicates(subset=['gnaf_pid']): keeps the first occurrence.
DropDuplicates(rows) ==
    LET Idx == {i \in 1..Len(rows) :
                   \A j \in 1..(i - 1) : rows[j].gnaf_pid # rows[i].gnaf_pid}
        Keep[i \in 0..Len(rows)] ==
            IF i = 0 THEN <<>>
            ELSE IF i \in Idx THEN Append(Keep[i - 1], rows[i]) ELSE Keep[i - 1]
    IN  Keep[Len(rows)]

\* trans_df.merge(gnaf_df[cols_to_keep], on='gnaf_pid', how='inner'): one row
\* per (transaction, matching property row) pair, in transaction order.
Merge(trans, gnaf) ==
    LET Matches(t) == Filter(gnaf, LAMBDA g : g.gnaf_pid = t.gnaf_pid)
        Joined(t) == Map(Matches(t), LAMBDA g :
                         [gnaf_pid |-> t.gnaf_pid, price |-> t.price,
                          date_sold |-> t.date_sold, mb_2016_code |-> g.mb_2016_code])
    IN  Concat(Map(trans, Joined))

\* Faulty variant: no price floor.
PriceFilter_None(price) == price.k = "num"

\* Faulty variant: the price floor is inclusive.
PriceFilter_Inclusive(price) == price.k = "num" /\ price.v >= MIN_PRICE * Scale

\* merged_data[price] > 10000
PriceFilter(price) == price.k = "num" /\ price.v > MIN_PRICE * Scale

\* Lines 80-84: coerce, dropna, price filter, derive year.
Clean(merged) ==
    LET coerced == Map(merged, LAMBDA r :
                       [r EXCEPT !.price = ToNumeric(r.price),
                                 !.date_sold = ToDatetime(r.date_sold)])
        notna == Filter(coerced, LAMBDA r :
                        r.price.k # "nan" /\ r.date_sold.ok /\ r.mb_2016_code.k # "nan")
        priced == Filter(notna, LAMBDA r : PriceFilter(r.price))
    IN  Map(priced, LAMBDA r :
            [gnaf_pid |-> r.gnaf_pid, price |-> r.price, date_sold |-> r.date_sold,
             mb_2016_code |-> r.mb_2016_code, year |-> r.date_sold.y])

\* Faulty variant: an empty merge does not stop the run.
MergeIsEmpty_Never(merged) == FALSE

\* len(merged_data) == 0
MergeIsEmpty(merged) == Len(merged) = 0

\* The merge of the tables as process_transactions prepares them.
MergedOf(gnaf, trans) ==
    Merge(AsTypeStrColumn(trans), DropDuplicates(AsTypeStrColumn(gnaf.rows)))

ProcessTransactions ==
    /\ pc = "process"
    /\ gnaf_before' = gnaf_df
    /\ trans_before' = trans_df
    /\ IF ~gnaf_df.has_mb
       THEN /\ stdout' = Append(stdout, Say("missing_column", 0))
            /\ pc' = "exit"
            /\ exit_code' = 1
            /\ UNCHANGED <<gnaf_df, trans_df, merged_data, processed_data>>
       ELSE LET merged == MergedOf(gnaf_df, trans_df)
            IN  /\ trans_df' = AsTypeStrColumn(trans_df)
                /\ merged_data' = merged
                /\ gnaf_df' = [gnaf_df EXCEPT !.rows = AsTypeStrColumn(gnaf_df.rows)]
                /\ IF MergeIsEmpty(merged)
                   THEN /\ stdout' = stdout \o <<Say("merged", Len(merged)),
                                                 Say("merge_empty", 0)>>
                        /\ pc' = "exit"
                        /\ exit_code' = 1
                        /\ UNCHANGED processed_data
                   ELSE /\ stdout' = Append(stdout, Say("merged", Len(merged)))
                        /\ processed_data' = Clean(merged)
                        /\ pc' = "aggregate"
                        /\ UNCHANGED exit_code
    /\ UNCHANGED <<files_ok, gnaf_file, trans_file, final_metrics, csv_written,
                   csv_rows, top_10, top_3>>

(***************************************************************************)
(* aggregate_growth                                                        *)
(***************************************************************************)
\* Order of the group keys (mesh block, then year).
KeyLess(a, b) ==
    \/ a.mb_2016_code.v < b.mb_2016_code.v
    \/ a.mb_2016_code.v = b.mb_2016_code.v /\ a.year < b.year

\* Series.median() of the non-null prices: the middle of the sorted values,
\* the mean of the two middle ones for an even count; in 1/MedianScale units.
Median(prices) ==
    LET s == StableSort(prices, LAMBDA a, b : a < b)
        n == Len(s)
    IN  IF n = 0 THEN NaN
        ELSE IF n % 2 = 1 THEN Num(2 * s[(n + 1) \div 2])
        ELSE Num(s[n \div 2] + s[n \div 2 + 1])

\* groupby(['mb_2016_code', 'year'])['price'].agg(['median', 'count'])
\* .reset_index(): one row per key present, keys ascending, NaN keys dropped.
GroupAgg(data) ==
    LET keyed == Filter(data, LAMBDA r : r.mb_2016_code.k # "nan")
        Keys == {[mb_2016_code |-> keyed[i].mb_2016_code, year |-> keyed[i].year] :
                    i \in 1..Len(keyed)}
        Nth(k) == CHOOSE key \in Keys :
                      Cardinality({o \in Keys : KeyLess(o, key)}) = k - 1
        Prices(key) ==
            Map(Filter(keyed, LAMBDA r : r.mb_2016_code = key.mb_2016_code
                                          /\ r.year = key.year /\ r.price.k = "num"),
                LAMBDA r : r.price.v)
    IN  [k \in 1..Cardinality(Keys) |->
            [mb_2016_code |-> Nth(k).mb_2016_code, year |-> Nth(k).year,
             median |-> Median(Prices(Nth(k))), count |-> Len(Prices(Nth(k)))]]

\* Faulty variant: the threshold is one too low.
FilterLowVolume_OffByOne(rows) ==
    Filter(rows, LAMBDA r : r.count >= MINIMUM_SALES_COUNT - 1)

\* metrics_with_count[metrics_with_count['count'] >= MINIMUM_SALES_COUNT]
FilterLowVolume(rows) == Filter(rows, LAMBDA r : r.count >= MINIMUM_SALES_COUNT)

\* sort_values(by=['mb_2016_code', 'year'])
SortValues(rows) == StableSort(rows, KeyLess)

\* pct_change() * 100 of one value against the previous one of its group, as
\* an exact fraction n / d of a percent; NaN for the first of a group.
PctChange(prev, cur) ==
    IF prev.k # "num" \/ cur.k # "num" THEN [k |-> "nan", n |-> 0, d |-> 1]
    ELSE IF prev.v = 0
         THEN [k |-> IF cur.v = 0 THEN "nan" ELSE "inf", n |-> 0, d |-> 1]
    ELSE [k |-> "num", n |-> 100 * (cur.v - prev.v), d |-> prev.v]

\* .round(0) of a median.
RoundMedian(m) == IF m.k = "num" THEN Num(RoundHalfEven(m.v, MedianScale)) ELSE m

\* Faulty variant: the medians are rounded before the growth is computed.
PctChangeByGroup_Rounded(rows) ==
    LET Before(i) == {j \in 1..(i - 1) : rows[j].mb_2016_code = rows[i].mb_2016_code}
        Prev(i) == CHOOSE j \in Before(i) : \A o \in Before(i) : o <= j
        Whole(m) == Num(RoundMedian(m).v * MedianScale)
    IN  [i \in 1..Len(rows) |->
            [mb_2016_code |-> rows[i].mb_2016_code, year |-> rows[i].year,
             median |-> rows[i].median, count |-> rows[i].count,
             growth |-> IF Before(i) = {} THEN [k |-> "nan", n |-> 0, d |-> 1]
                        ELSE PctChange(Whole(rows[Prev(i)].median), Whole(rows[i].median))]]

\* Faulty variant: pct_change() over the whole table, not per mesh block.
PctChangeByGroup_Ungrouped(rows) ==
    [i \in 1..Len(rows) |->
        [mb_2016_code |-> rows[i].mb_2016_code, year |-> rows[i].year,
         median |-> rows[i].median, count |-> rows[i].count,
         growth |-> IF i = 1 THEN [k |-> "nan", n |-> 0, d |-> 1]
                    ELSE PctChange(rows[i - 1].median, rows[i].median)]]

\* groupby('mb_2016_code')['median'].pct_change() * 100: each row against the
\* preceding row of the same mesh block, in row order.
PctChangeByGroup(rows) ==
    LET Before(i) == {j \in 1..(i - 1) : rows[j].mb_2016_code = rows[i].mb_2016_code}
        Prev(i) == CHOOSE j \in Before(i) : \A o \in Before(i) : o <= j
    IN  [i \in 1..Len(rows) |->
            [mb_2016_code |-> rows[i].mb_2016_code, year |-> rows[i].year,
             median |-> rows[i].median, count |-> rows[i].count,
             growth |-> IF Before(i) = {} THEN [k |-> "nan", n |-> 0, d |-> 1]
                        ELSE PctChange(rows[Prev(i)].median, rows[i].median)]]

\* .round(2) of a growth percentage: to hundredths of a percent.
RoundGrowth(g) ==
    IF g.k = "num" THEN Num(RoundHalfEven(100 * g.n, g.d)) ELSE [k |-> g.k, v |-> 0]

\* rename(columns=...) and the two round() calls.
RenameAndRound(rows) ==
    Map(rows, LAMBDA r :
        [mb_2016_code |-> r.mb_2016_code, year |-> r.year,
         median_price |-> RoundMedian(r.median), sales_count |-> r.count,
         median_price_growth_yoy |-> RoundGrowth(r.growth)])

aggregate_growth(data) ==
    RenameAndRound(PctChangeByGroup(SortValues(FilterLowVolume(GroupAgg(data)))))

AggregateGrowth ==
    /\ pc = "aggregate"
    /\ final_metrics' = aggregate_growth(processed_data)
    /\ stdout' = Append(stdout, Say("removed_low_volume",
                     Len(GroupAgg(processed_data))
                       - Len(FilterLowVolume(GroupAgg(processed_data)))))
    /\ pc' = "write"
    /\ UNCHANGED <<files_ok, gnaf_file, trans_file, gnaf_df, trans_df, gnaf_before,
                   trans_before, merged_data, processed_data, csv_written, csv_rows, top_10,
                   top_3, exit_code>>

(***************************************************************************)
(* __main__: final_metrics.to_csv(...)                                     *)
(***************************************************************************)
WriteCsv ==
    /\ pc = "write"
    /\ csv_written' = TRUE
    /\ csv_rows' = final_metrics
    /\ stdout' = Append(stdout, Say("analysis_complete", Len(final_metrics)))
    /\ pc' = "visualize"
    /\ UNCHANGED <<files_ok, gnaf_file, trans_file, gnaf_df, trans_df, gnaf_before,
                   trans_before, merged_data, processed_data, final_metrics, top_10, top_3,
                   exit_code>>

(***************************************************************************)
(* create_visualizations                                                   *)
(***************************************************************************)
MaxYear(rows) == CHOOSE y \in {rows[i].year : i \in 1..Len(rows)} :
                     \A i \in 1..Len(rows) : rows[i].year <= y

\* Rows of the last LAST_N_YEARS_FOR_GROWTH years with a growth value.
RecentGrowth(rows) ==
    Filter(rows, LAMBDA r : r.year > MaxYear(rows) - LAST_N_YEARS_FOR_GROWTH
                            /\ r.median_price_growth_yoy.k # "nan")

\* a < b for two means kept as sum / cnt.
MeanLess(a, b) == a.sum * b.cnt < b.sum * a.cnt

\* recent_growth.groupby('mb_2016_code')['median_price_growth_yoy'].mean():
\* one entry per mesh block, mesh blocks ascending.
AvgGrowth(recent) ==
    LET MBs == {recent[i].mb_2016_code.v : i \in 1..Len(recent)}
        Nth(k) == CHOOSE m \in MBs : Cardinality({o \in MBs : o < m}) = k - 1
        Of(m) == Filter(recent, LAMBDA r : r.mb_2016_code.v = m)
        Sum[i \in 0..Len(recent)] ==
            IF i = 0 THEN [m \in MBs |-> 0]
            ELSE [Sum[i - 1] EXCEPT ![recent[i].mb_2016_code.v] =
                      @ + recent[i].median_price_growth_yoy.v]
    IN  [k \in 1..Cardinality(MBs) |->
            [mb |-> Nth(k), sum |-> Sum[Len(recent)][Nth(k)], cnt |-> Len(Of(Nth(k)))]]

\* Faulty variant: the n smallest are taken.
NLargest_Smallest(series, n) == Head_n(StableSort(series, MeanLess), n)

\* Series.nlargest(n): the n largest, largest first, ties in index order.
NLargest(series, n) == Head_n(StableSort(series, LAMBDA a, b : MeanLess(b, a)), n)

\* .sort_values(ascending=True)
SortAscending(series) == StableSort(series, MeanLess)

\* avg_growth.nlargest(10).sort_values(ascending=True)
Top10(avg_growth) == SortAscending(NLargest(avg_growth, TOP_N))

\* avg_growth.nlargest(3).index
Top3(avg_growth) == Map(NLargest(avg_growth, TOP_HISTORY), LAMBDA e : e.mb)

CreateVisualizations ==
    /\ pc = "visualize"
    /\ IF final_metrics = <<>>
       THEN /\ stdout' = Append(stdout, Say("no_data", 0))
            /\ UNCHANGED <<top_10, top_3>>
       ELSE LET recent_growth == RecentGrowth(final_metrics)
                avg_growth == AvgGrowth(recent_growth)
            IN  IF recent_growth # <<>>
                THEN /\ top_10' = Top10(avg_growth)
                     /\ top_3' = Top3(avg_growth)
                     /\ stdout' = stdout \o <<Say("saved_top_10", Len(Top10(avg_growth))),
                                              Say("saved_history", Len(Top3(avg_growth)))>>
                ELSE /\ top_10' = <<>>
                     /\ top_3' = <<>>
                     /\ stdout' = stdout \o <<Say("not_enough_recent", 0),
                                              Say("skip_history", 0)>>
    /\ pc' = "done"
    /\ UNCHANGED <<files_ok, gnaf_file, trans_file, gnaf_df, trans_df, gnaf_before,
                   trans_before, merged_data, processed_data, final_metrics, csv_written,
                   csv_rows, exit_code>>

(***************************************************************************)
(* Inputs.                                                                 *)
(***************************************************************************)
SeqUpTo(S, n) == UNION {[1..k -> S] : k \in 0..n}

\* Identifier cells as the parquet files hold them, and as a caller of
\* process_transactions may pass them.
FileIds == {Id("bytes", 1, FALSE), Id("str", 1, TRUE), Id("int", 2, FALSE)}
ArgIds == {Id("int", 1, FALSE), Id("str", 1, FALSE), Id("str", 2, FALSE)}

MBCells == {Num(1), Num(2), NaN}

RawPrice(kind, x) == [k |-> kind, v |-> x]
RawDate(kind, y, m) == [k |-> kind, y |-> y, m |-> m]

GoodPrice == RawPrice("num", (MIN_PRICE + 1) * Scale)
GoodDate == RawDate("date", 2020, 7)

\* 9999, 10000, 10001 as numbers, "10001" as text, unparseable text, null.
PriceCells == {RawPrice("num", (MIN_PRICE - 1) * Scale), RawPrice("num", MIN_PRICE * Scale),
               GoodPrice, RawPrice("numstr", (MIN_PRICE + 1) * Scale),
               RawPrice("badstr", 0), RawPrice("nan", 0)}
\* A date as text, unparseable text, null.
DateCells == {RawDate("datestr", 2021, 1), RawDate("badstr", 0, 0), RawDate("nat", 0, 0)}

GnafRow(id, mb) == [gnaf_pid |-> id, mb_2016_code |-> mb]
TransRow(id, price, date) == [gnaf_pid |-> id, price |-> price, date_sold |-> date]

\* Property tables: with the mesh-block column, or without it.
GnafTables(ids) ==
    {[has_mb |-> TRUE, rows |-> r] :
        r \in SeqUpTo({GnafRow(i, m) : i \in ids, m \in MBCells}, MaxGnaf)}
    \cup {[has_mb |-> FALSE, rows |-> r] :
        r \in SeqUpTo({GnafRow(i, NaN) : i \in ids}, MaxGnaf)}

\* Join inputs: any property table, transactions with sound price and date.
JoinInputs(ids, n) ==
    {<<g, t>> : g \in GnafTables(ids),
                t \in SeqUpTo({TransRow(i, GoodPrice, GoodDate) : i \in ids}, n)}

\* Cleaning inputs: one property in one mesh block, transactions on it with
\* any price and date cell.
CleanInputs ==
    {<<[has_mb |-> TRUE, rows |-> <<GnafRow(Id("bytes", 1, FALSE), Num(1))>>], t>> :
        t \in SeqUpTo({TransRow(Id("bytes", 1, FALSE), p, d) :
                          p \in PriceCells, d \in DateCells},
                      MaxCleanTrans)}

\* Aggregation inputs: for each (mesh block, year) cell a number of sales and
\* one of the cell's two price lists; the cell's sales take the first prices
\* of the list.  Prices are in 1/Scale units (20001 is 10000.5): the lists
\* hold prices at or below 10000, medians that are not whole, and a cell
\* whose sales are mostly below the price floor.
Cells == << <<2, 2020>>, <<1, 2021>>, <<1, 2019>>, <<1, 2020>> >>
PriceLists ==
    << << <<20001, 20001, 20002, 20000, 20001>>, <<20003, 20002, 20006, 20009, 20002>> >>,
       << <<20004, 20008, 20001, 20005, 20003>>, <<20010, 20001, 20008, 20002, 20004>> >>,
       << <<20001, 20000, 20001, 20003, 20002>>, <<20006, 20004, 20005, 20008, 20001>> >>,
       << <<19998, 20002, 19998, 20002, 20002>>, <<20004, 20004, 20009, 20001, 20001>> >> >>

ListPrice(c, l, i) == PriceLists[c][l][((i - 1) % Len(PriceLists[c][l])) + 1]

CellRows(c, n, l) ==
    [i \in 1..n |-> TransRow(Id("bytes", Cells[c][1], FALSE),
                             RawPrice("num", ListPrice(c, l, i)),
                             RawDate("date", Cells[c][2], ((5 * i) % 12) + 1))]

GroupInputs ==
    {<<[has_mb |-> TRUE,
        rows |-> <<GnafRow(Id("bytes", 1, FALSE), Num(1)),
                   GnafRow(Id("bytes", 2, FALSE), Num(2))>>],
       Concat([c \in 1..Len(Cells) |-> CellRows(c, n[c], l[c])])>> :
        n \in [1..Len(Cells) -> 0..MaxGroup], l \in [1..Len(Cells) -> {1, 2}]}

InitRest ==
    /\ gnaf_before = EmptyGnaf
    /\ trans_before = <<>>
    /\ merged_data = <<>>
    /\ processed_data = <<>>
    /\ final_metrics = <<>>
    /\ csv_written = FALSE
    /\ csv_rows = <<>>
    /\ top_10 = <<>>
    /\ top_3 = <<>>
    /\ stdout = <<>>
    /\ exit_code = 0

\* A run of the script: the two parquet files, or a missing file.
Init ==
    /\ pc = "load"
    /\ gnaf_df = EmptyGnaf
    /\ trans_df = <<>>
    /\ \/ /\ files_ok = TRUE
          /\ \E in \in JoinInputs(FileIds, MaxRunTrans) \cup CleanInputs \cup GroupInputs :
                 gnaf_file = in[1] /\ trans_file = in[2]
       \/ /\ files_ok = FALSE
          /\ gnaf_file = EmptyGnaf
          /\ trans_file = <<>>
    /\ InitRest

Next ==
    \/ LoadData
    \/ ProcessTransactions
    \/ AggregateGrowth
    \/ WriteCsv
    \/ CreateVisualizations

Spec == Init /\ [][Next]_vars

\* A call of process_transactions(gnaf_df, trans_df) by any caller, followed
\* by aggregate_growth on its result.
InitFn ==
    /\ pc = "process"
    /\ files_ok = TRUE
    /\ gnaf_file = EmptyGnaf
    /\ trans_file = <<>>
    /\ \E in \in JoinInputs(ArgIds, MaxJoinTrans) : gnaf_df = in[1] /\ trans_df = in[2]
    /\ InitRest

NextFn ==
    \/ ProcessTransactions
    \/ AggregateGrowth

SpecFn == InitFn /\ [][NextFn]_vars

\* Ranking inputs: a metrics table of NumRankMB mesh blocks, each with one of
\* the two histories of its class.  Growth values are in hundredths of a
\* percent.  A history starts with a row without growth; years up to 2016 lie
\* outside the window of the latest year, 2021.
MetricRow(m, y, g) ==
    [mb_2016_code |-> Num(m), year |-> y, median_price |-> Num(MIN_PRICE + m),
     sales_count |-> MINIMUM_SALES_COUNT, median_price_growth_yoy |-> g]

Histories(m) ==
    CASE m % 3 = 0 ->
           << <<MetricRow(m, 2019, NaN),
                MetricRow(m, 2020, Num(100 * (m % 4))),
                MetricRow(m, 2021, Num(75))>>,
              <<MetricRow(m, 2021, NaN)>> >>
      [] m % 3 = 1 ->
           << <<MetricRow(m, 2020, NaN),
                MetricRow(m, 2021, Num(100 * (m % 5) - 100))>>,
              <<MetricRow(m, 2018, NaN),
                MetricRow(m, 2021, Num(25 * m))>> >>
      [] OTHER ->
           << <<MetricRow(m, 2015, NaN),
                MetricRow(m, 2016, Num(9900)),
                MetricRow(m, 2017, Num(10 * m - 50))>>,
              <<MetricRow(m, 2015, NaN),
                MetricRow(m, 2016, Num(9900))>> >>

RankInputs ==
    {Concat([m \in 1..NumRankMB |-> Histories(m)[h[m]]]) : h \in [1..NumRankMB -> {1, 2}]}

\* A call of create_visualizations(final_metrics) on a written metrics table.
InitRank ==
    /\ pc = "visualize"
    /\ files_ok = TRUE
    /\ gnaf_file = EmptyGnaf
    /\ trans_file = <<>>
    /\ gnaf_df = EmptyGnaf
    /\ trans_df = <<>>
    /\ gnaf_before = EmptyGnaf
    /\ trans_before = <<>>
    /\ merged_data = <<>>
    /\ processed_data = <<>>
    /\ final_metrics \in RankInputs
    /\ csv_written = TRUE
    /\ csv_rows = final_metrics
    /\ top_10 = <<>>
    /\ top_3 = <<>>
    /\ stdout = <<>>
    /\ exit_code = 0

NextRank == CreateVisualizations

SpecRank == InitRank /\ [][NextRank]_vars

(***************************************************************************)
(* Properties.                                                             *)
(***************************************************************************)
\* aggregate_growth has returned.
Aggregated == pc \in {"write", "visualize", "done"}

\* process_transactions has returned its table.
Processed == pc \in {"aggregate", "write", "visualize", "done"}

\* The prices of the cleaned transactions of one (mesh block, year).
GroupPrices(mb, y) ==
    Map(Filter(processed_data, LAMBDA r : r.mb_2016_code = mb /\ r.year = y),
        LAMBDA r : r.price.v)

CleanYears == {processed_data[i].year : i \in 1..Len(processed_data)}

\* The years of a mesh block that survive the low-volume filter.
RetainedYears(mb) == {y \in CleanYears : Len(GroupPrices(mb, y)) >= MINIMUM_SALES_COUNT}

MaxOf(S) == CHOOSE x \in S : \A o \in S : o <= x

\* The retained years of row r's mesh block that lie before r's year.
EarlierYears(r) == {y \in RetainedYears(r.mb_2016_code) : y < r.year}

\* (m_t / m_prev - 1) * 100 rounded to two decimals, in hundredths.
ExpectedGrowth(m_prev, m_t) == RoundHalfEven(100 * 100 * (m_t - m_prev), m_prev)

\* C1: every output row other than its mesh block's earliest retained year
\* carries (m_t / m_prev - 1) * 100 rounded to two decimals, m_t and m_prev
\* being the unrounded medians of its group and of the group of the greatest
\* retained year below it.
C1_GrowthFromUnroundedRetained ==
    Aggregated =>
        \A i \in 1..Len(final_metrics) :
            LET r == final_metrics[i]
            IN  EarlierYears(r) # {} =>
                    r.median_price_growth_yoy =
                        Num(ExpectedGrowth(
                            Median(GroupPrices(r.mb_2016_code, MaxOf(EarlierYears(r)))).v,
                            Median(GroupPrices(r.mb_2016_code, r.year)).v))

\* A row whose preceding retained year is not the calendar year before it
\* (that year had sales but too few) and whose baseline median is not whole.
C1_Witness ==
    /\ Aggregated
    /\ \E i \in 1..Len(final_metrics) :
           LET r == final_metrics[i]
           IN  /\ EarlierYears(r) # {}
               /\ MaxOf(EarlierYears(r)) < r.year - 1
               /\ GroupPrices(r.mb_2016_code, r.year - 1) # <<>>
               /\ Median(GroupPrices(r.mb_2016_code, MaxOf(EarlierYears(r)))).v % MedianScale # 0
               /\ r.median_price_growth_yoy.k = "num"
               /\ r.median_price_growth_yoy.v # 0

\* C2: every output row has sales_count >= MINIMUM_SALES_COUNT, equal to the
\* number of cleaned transactions of its (mesh block, year); a group with
\* fewer transactions has no row.
C2_SalesCount ==
    Aggregated =>
        /\ \A i \in 1..Len(final_metrics) :
               /\ final_metrics[i].sales_count >= MINIMUM_SALES_COUNT
               /\ final_metrics[i].sales_count =
                      Len(GroupPrices(final_metrics[i].mb_2016_code, final_metrics[i].year))
        /\ \A j \in 1..Len(processed_data) :
               Len(GroupPrices(processed_data[j].mb_2016_code, processed_data[j].year))
                   < MINIMUM_SALES_COUNT
               => \A i \in 1..Len(final_metrics) :
                      ~(/\ final_metrics[i].mb_2016_code = processed_data[j].mb_2016_code
                        /\ final_metrics[i].year = processed_data[j].year)

\* A row of exactly three sales beside a dropped group of two.
C2_Witness ==
    /\ Aggregated
    /\ \E i \in 1..Len(final_metrics) : final_metrics[i].sales_count = MINIMUM_SALES_COUNT
    /\ \E j \in 1..Len(processed_data) :
           Len(GroupPrices(processed_data[j].mb_2016_code, processed_data[j].year))
               = MINIMUM_SALES_COUNT - 1

\* C3: the rows of a mesh block appear with strictly increasing years, and
\* the row of its earliest retained year has no growth value.
C3_OrderedFirstAbsent ==
    Aggregated =>
        \A i \in 1..Len(final_metrics) :
            /\ \A j \in (i + 1)..Len(final_metrics) :
                   final_metrics[j].mb_2016_code = final_metrics[i].mb_2016_code
                   => final_metrics[i].year < final_metrics[j].year
            /\ (\A j \in 1..Len(final_metrics) :
                   final_metrics[j].mb_2016_code = final_metrics[i].mb_2016_code
                   => final_metrics[i].year <= final_metrics[j].year)
               => final_metrics[i].median_price_growth_yoy = NaN

\* Two mesh blocks with rows; the first row of one follows a year of the
\* cleaned data that was dropped for low volume.
C3_Witness ==
    /\ Aggregated
    /\ \E i, j \in 1..Len(final_metrics) :
           /\ final_metrics[i].mb_2016_code # final_metrics[j].mb_2016_code
           /\ EarlierYears(final_metrics[i]) = {}
           /\ final_metrics[i].median_price_growth_yoy.k = "nan"
           /\ \E y \in CleanYears :
                  /\ y < final_metrics[i].year
                  /\ GroupPrices(final_metrics[i].mb_2016_code, y) # <<>>
           /\ \E k \in 1..Len(final_metrics) :
                  /\ final_metrics[k].mb_2016_code = final_metrics[i].mb_2016_code
                  /\ final_metrics[k].year > final_metrics[i].year

Merged == \E i \in 1..Len(stdout) : stdout[i].msg = "merged"

\* The places of the property table whose identifier, as a string, is that of
\* transaction t.
Occurrences(t) ==
    {j \in 1..Len(gnaf_before.rows) :
        AsTypeStr(gnaf_before.rows[j].gnaf_pid) = AsTypeStr(t.gnaf_pid)}

MinOf(S) == CHOOSE x \in S : \A o \in S : x <= o

\* The transactions, by place in the caller's table, that have a property.
Matching == {i \in 1..Len(trans_before) : Occurrences(trans_before[i]) # {}}

NthMatching(k) == CHOOSE i \in Matching : Cardinality({o \in Matching : o < i}) = k - 1

\* C4: the join is inner and deduplicating: each transaction whose property
\* id, as a string, occurs in the property table gives exactly one joined
\* row, with the mesh block of the id's first occurrence; any other
\* transaction gives none; the joined rows are no more than the transactions.
C4_InnerJoinFirstOccurrence ==
    Merged =>
        /\ Len(merged_data) = Cardinality(Matching)
        /\ Len(merged_data) <= Len(trans_before)
        /\ \A k \in 1..Len(merged_data) :
               LET t == trans_before[NthMatching(k)]
               IN  /\ merged_data[k].gnaf_pid = AsTypeStr(t.gnaf_pid)
                   /\ merged_data[k].price = t.price
                   /\ merged_data[k].date_sold = t.date_sold
                   /\ merged_data[k].mb_2016_code =
                          gnaf_before.rows[MinOf(Occurrences(t))].mb_2016_code

\* A property id listed twice with different mesh blocks, as an int and as a
\* str, a transaction on it and a transaction on an unlisted property.
C4_Witness ==
    /\ Merged
    /\ Len(gnaf_before.rows) = 2
    /\ gnaf_before.rows[1].gnaf_pid # gnaf_before.rows[2].gnaf_pid
    /\ AsTypeStr(gnaf_before.rows[1].gnaf_pid) = AsTypeStr(gnaf_before.rows[2].gnaf_pid)
    /\ gnaf_before.rows[1].mb_2016_code # gnaf_before.rows[2].mb_2016_code
    /\ Len(trans_before) = 2
    /\ Cardinality(Matching) = 1
    /\ Len(merged_data) = 1

\* What the cleaning keeps of a joined row.
Keeps(r) ==
    /\ r.price.k \in {"num", "numstr"}
    /\ r.price.v > MIN_PRICE * Scale
    /\ r.date_sold.k \in {"date", "datestr"}
    /\ r.mb_2016_code.k = "num"

\* C6: every returned row has a numeric price above 10000, a sale date whose
\* year is the row's year, and a mesh block; the joined rows kept are those
\* with such a price, date and mesh block (10000 and 9999 go, 10001 stays).
C6_CleanedRows ==
    Processed =>
        /\ \A i \in 1..Len(processed_data) :
               /\ processed_data[i].price.k = "num"
               /\ processed_data[i].price.v > MIN_PRICE * Scale
               /\ processed_data[i].date_sold.ok
               /\ processed_data[i].year = processed_data[i].date_sold.y
               /\ processed_data[i].mb_2016_code.k = "num"
        /\ Len(processed_data) = Len(Filter(merged_data, Keeps))
        /\ \A j \in 1..Len(merged_data) :
               Keeps(merged_data[j]) =>
                   \E i \in 1..Len(processed_data) :
                       /\ processed_data[i].price.v = merged_data[j].price.v
                       /\ processed_data[i].year = merged_data[j].date_sold.y

\* A joined row priced exactly 10000 is gone, one priced 10001 is kept.
C6_Witness ==
    /\ Processed
    /\ Len(merged_data) = 2
    /\ \E j \in 1..2 : merged_data[j].price = RawPrice("num", MIN_PRICE * Scale)
    /\ \E j \in 1..2 : merged_data[j].price = RawPrice("num", (MIN_PRICE + 1) * Scale)
    /\ Len(processed_data) = 1
    /\ processed_data[1].price = Num((MIN_PRICE + 1) * Scale)

\* C5 as stated: when the join yields rows and the cleaning leaves none, the
\* run fails before aggregate_growth runs and no result table is written.
C5_EmptyAfterCleaningIsFatal ==
    (Merged /\ Len(merged_data) > 0 /\ Len(Filter(merged_data, Keeps)) = 0) =>
        /\ pc \notin {"aggregate", "write", "visualize", "done"}
        /\ ~csv_written

C8_WrittenAfterJoinAndClean ==
    csv_written =>
        /\ gnaf_before.has_mb
        /\ Merged
        /\ Len(merged_data) > 0
        /\ processed_data = Clean(merged_data)
        /\ pc \in {"visualize", "done"}
        /\ exit_code = 0

\* process_transactions met a fatal condition: the run has ended with a
\* non-zero exit and no result file.
C8_FatalStops ==
    (pc # "load" /\ pc # "process" /\ files_ok
        /\ (~gnaf_before.has_mb \/ (Merged /\ Len(merged_data) = 0)))
    => (pc = "exit" /\ exit_code = 1 /\ ~csv_written /\ ~ENABLED Next)

\* C8: the result file is written only after the join and the cleaning have
\* completed without a fatal error; a missing mesh-block column or an empty
\* join ends the run with a non-zero exit and no result file; and
\* aggregate_growth, once started, completes.
C8_NoOutputOnFatalError ==
    /\ [](C8_WrittenAfterJoinAndClean /\ C8_FatalStops)
    /\ [][pc = "aggregate" => (pc' = "write" /\ exit_code' = 0)]_vars

\* The join found no property for any transaction: the run has failed.
C8_Witness ==
    /\ pc = "exit"
    /\ gnaf_before.has_mb
    /\ gnaf_before.rows # <<>>
    /\ trans_before # <<>>
    /\ Merged
    /\ merged_data = <<>>
    /\ exit_code = 1
    /\ ~csv_written

\* The rows create_visualizations ranks: those of the last five years up to
\* the latest year of the table that carry a growth value.
Ranked(i) ==
    /\ final_metrics[i].median_price_growth_yoy.k # "nan"
    /\ \A j \in 1..Len(final_metrics) :
           final_metrics[i].year > final_metrics[j].year - LAST_N_YEARS_FOR_GROWTH

RankedMBs == {final_metrics[i].mb_2016_code.v : i \in {j \in 1..Len(final_metrics) : Ranked(j)}}

RECURSIVE SumGrowth(_, _)
SumGrowth(m, i) ==
    IF i = 0 THEN 0
    ELSE SumGrowth(m, i - 1)
         + (IF Ranked(i) /\ final_metrics[i].mb_2016_code.v = m
            THEN final_metrics[i].median_price_growth_yoy.v ELSE 0)

\* The mean growth of mesh block m over its ranked rows, as sum / cnt.
MeanOf(m) ==
    [mb |-> m, sum |-> SumGrowth(m, Len(final_metrics)),
     cnt |-> Cardinality({i \in 1..Len(final_metrics) :
                             Ranked(i) /\ final_metrics[i].mb_2016_code.v = m})]

Min2(a, b) == IF a < b THEN a ELSE b

\* C7: the ranking holds exactly min(10, n) mesh blocks, n being the number of
\* mesh blocks with a ranked row, each with its mean growth over its ranked
\* rows; it is ascending by mean, and no mesh block outside it has a mean
\* above that of one inside it.
C7_TopTenAscending ==
    pc = "done" =>
        /\ Len(top_10) = Min2(TOP_N, Cardinality(RankedMBs))
        /\ \A i \in 1..Len(top_10) :
               /\ top_10[i].mb \in RankedMBs
               /\ top_10[i] = MeanOf(top_10[i].mb)
        /\ \A i, j \in 1..Len(top_10) :
               i < j => (top_10[i].mb # top_10[j].mb /\ ~MeanLess(top_10[j], top_10[i]))
        /\ \A m \in RankedMBs :
               (\A i \in 1..Len(top_10) : top_10[i].mb # m)
               => \A i \in 1..Len(top_10) : ~MeanLess(top_10[i], MeanOf(m))

\* More than ten mesh blocks have ranked rows: ten are ranked, the lowest mean
\* is below the highest, a mesh block is left out, and a ranked mesh block
\* has a row outside the window.
C7_Witness ==
    /\ pc = "done"
    /\ Cardinality(RankedMBs) > TOP_N
    /\ Len(top_10) = TOP_N
    /\ MeanLess(top_10[1], top_10[TOP_N])
    /\ \E m \in RankedMBs : \A i \in 1..Len(top_10) : top_10[i].mb # m
    /\ \E i \in 1..Len(top_10) : top_10[i].cnt > 1
    /\ \E i \in 1..Len(final_metrics) :
           /\ ~Ranked(i)
           /\ final_metrics[i].median_price_growth_yoy.k = "num"
           /\ final_metrics[i].mb_2016_code.v \in RankedMBs

====
